---- MODULE Spec2Model ----
(***************************************************************************)
(* Model of the matching task writer (service/matching/taskWriter.go):     *)
(* appendTask callers, the admission channel, the single writer loop, the  *)
(* task-ID block allocator with lease renewal, Start and Stop.             *)
(*                                                                         *)
(* Threads: every caller of appendTask, every caller of Stop, the caller   *)
(* of Start and the writer loop goroutine are separate processes.  An      *)
(* action is one step of one of them that ends at an access to shared      *)
(* state: a call of the store (RenewLease, CreateTasks), the               *)
(* compare-and-swap on w.stopped, close(w.stopCh), a channel operation, an *)
(* atomic load or store.  What a goroutine does in its own memory between  *)
(* two such accesses belongs to the step of the access before it.  A       *)
(* request is identified by the caller that made it: a caller has at most  *)
(* one request in the writer at any time.                                  *)
(*                                                                         *)
(* Spec is the writer as the only owner of its task list, with a store in  *)
(* which another owner may take the lease; SpecFair adds fair scheduling;  *)
(* SpecMutation adds another user of the writer's taskListDB;              *)
(* SpecTwoWriters runs a second writer of the same task list.              *)
(*                                                                         *)
(* The zone resolver and the partitioner (common/partition) are read-only  *)
(* functions of the zone tables; their calls form a further specification, *)
(* SpecPartition, over the variables zoneEnv and zoneCall.                 *)
(***************************************************************************)
EXTENDS Integers, Sequences, FiniteSets, TLC

\* ---- bounds of the model ------------------------------------------------
NumCallers == 3
NumStoppers == 2
MaxCalls == 3
MaxTakeovers == 1
MaxInitRangeID == 1
MaxPeerWrites == 3
\* ---- configuration of the writer under test -----------------------------
RangeSize == 2
OutstandingTaskAppendsThreshold == 2
MaxTaskBatchSize == 2

Callers == 1..NumCallers
Stoppers == 1..NumStoppers

VARIABLES
  appendCh,      \* w.appendCh: buffered channel of requests (FIFO)
  taskIDBlock,   \* w.taskIDBlock: [start, end]
  maxReadLevel,  \* w.maxReadLevel
  stopped,       \* w.stopped (0 or 1)
  stopChCloses,  \* number of times close(w.stopCh) ran; closed iff >= 1
  dbRangeID,     \* w.db.RangeID(): the range-id cached by taskListDB
  storeRangeID,  \* the range-id persisted in the task store
  commits,       \* every CreateTasks call so far: [ids, reqs, err]
  loopPc,        \* position of taskWriterLoop
  reqs,          \* the loop's current batch
  batchI,        \* getWriteBatch's loop counter i
  taskIDs,       \* the IDs allocTaskIDs returned for the batch
  batchErr,      \* the err handed to sendWriteResponse
  respIdx,       \* sendWriteResponse's position in reqs
  cpc,           \* position of each appendTask caller
  cres,          \* the error appendTask returned to each caller
  afterStop,     \* the caller's current call began after a Stop returned
  admitRes,      \* outcome of the caller's last admitted request
  spc,           \* position of each Stop caller
  calls,         \* number of appendTask calls begun
  takeovers,     \* number of times another owner took the lease
  startLevel,    \* the maxReadLevel Start set
  lastAlloc,     \* the last allocTaskIDs call: its input and its result
  zoneEnv,       \* the zone tables and the feature gate the resolver reads
  zoneCall,      \* the last call of the zone resolver or partitioner
  peer           \* a second taskWriter of the same task list

vars == <<appendCh, taskIDBlock, maxReadLevel, stopped, stopChCloses,
          dbRangeID, storeRangeID, commits, loopPc, reqs, batchI, taskIDs,
          batchErr, respIdx, cpc, cres, afterStop, admitRes, spc, calls,
          takeovers, startLevel, lastAlloc, zoneEnv, zoneCall, peer>>

partVars == <<zoneEnv, zoneCall>>

writerVars == <<appendCh, taskIDBlock, maxReadLevel, stopped, stopChCloses,
                dbRangeID, storeRangeID, commits, loopPc, reqs, batchI,
                taskIDs, batchErr, respIdx>>

\* ---- pure helpers --------------------------------------------------------

noBlock == [start |-> 0, end |-> 0]

noAlloc == [n |-> 0, ids |-> <<>>, err |-> "none", before |-> noBlock,
            rangeBefore |-> 0, rangeAfter |-> 0, renewals |-> 0]

rangeIDToTaskIDBlock(rangeID, rangeSize) ==
  [start |-> (rangeID - 1) * rangeSize + 1, end |-> rangeID * rangeSize]

\* taskListDB.RenewLease: conditional increment of the stored range-id.
\* fault: the store call fails (a permanent error, or retries exhausted).
RenewLease(dbR, storeR, fault) ==
  IF ~fault /\ (dbR = 0 \/ dbR = storeR)
  THEN [err |-> "none", rangeID |-> storeR + 1]
  ELSE [err |-> "RenewError", rangeID |-> 0]

\* renewLeaseWithRetry, lines 187-199: the store call and its result; stop
\* says that tlMgr.Stop() is called before the error is returned.
renewLeaseWithRetry(dbR, storeR, fault) ==
  LET r == RenewLease(dbR, storeR, fault)
  IN  [err |-> r.err, rangeID |-> r.rangeID, stop |-> (r.err # "none")]

\* Variant: the block ends are never compared.
invalidStateNever(prevBlockEnd, dbR) == FALSE

\* allocTaskIDBlock, lines 174-175: the block of the cached range-id does
\* not end where the exhausted block ends.
invalidState(prevBlockEnd, dbR) ==
  LET currBlock == rangeIDToTaskIDBlock(dbR, RangeSize)
  IN  currBlock.end # prevBlockEnd

\* Variant: the exhausted block is adopted again instead of the renewed one.
allocTaskIDBlockNoRenew(prevBlockEnd, state) ==
  IF state.err # "none"
  THEN [err |-> state.err, block |-> noBlock]
  ELSE [err |-> "none",
        block |-> [start |-> prevBlockEnd - RangeSize + 1,
                   end |-> prevBlockEnd]]

\* Variant: the renewed block is computed from the end of the previous block.
allocTaskIDBlockFromPrevEnd(prevBlockEnd, state) ==
  IF state.err # "none"
  THEN [err |-> state.err, block |-> noBlock]
  ELSE [err |-> "none",
        block |-> [start |-> prevBlockEnd,
                   end |-> prevBlockEnd + RangeSize - 1]]

\* allocTaskIDBlock, lines 179-183: what it returns for the state that
\* renewLeaseWithRetry gave.
allocTaskIDBlock(prevBlockEnd, state) ==
  IF state.err # "none"
  THEN [err |-> state.err, block |-> noBlock]
  ELSE [err |-> "none",
        block |-> rangeIDToTaskIDBlock(state.rangeID, RangeSize)]

\* Variant: block.start is handed out but not advanced.
takeIDNoAdvance(st, block) ==
  [st EXCEPT !.block = block,
             !.result = Append(st.result, block.start)]

\* allocTaskIDs, lines 167-168: hand out block.start and advance it.
takeID(st, block) ==
  [st EXCEPT !.block = [start |-> block.start + 1, end |-> block.end],
             !.result = Append(st.result, block.start)]

\* Variant: the IDs handed out before the failure are returned with the error.
allocFailKeepsPartial(result, err) == [ids |-> result, err |-> err]

\* allocTaskIDs, lines 162-164: a failed block allocation returns no IDs.
allocFail(result, err) == [ids |-> <<>>, err |-> err]

\* The for loop of allocTaskIDs, lines 158-169, for as long as it stays in
\* the writer's own memory: IDs are taken from the block until the result
\* holds count of them or the block has run out.
RECURSIVE allocLoop(_, _)
allocLoop(st, count) ==
  IF Len(st.result) >= count \/ st.block.start > st.block.end
  THEN st
  ELSE allocLoop(takeID(st, st.block), count)

\* taskListManager.handleErr: a condition failure stops the task list.
handleErr(err) == err = "ConditionFailed"

\* taskListDB.CreateTasks: one atomic write, conditional on the range-id.
CreateTasks(dbR, storeR, fault) ==
  IF fault THEN "PersistenceError"
  ELSE IF dbR # storeR THEN "ConditionFailed"
  ELSE "none"

\* Variant: the writer counts as stopped only once the channel is closed.
isStoppedWhenClosed == stopChCloses >= 1

isStopped == stopped = 1

stopChClosed == stopChCloses >= 1

StopReturned == \E s \in Stoppers : spc[s] = "done"

\* ---- zone resolver and partitioner (common/partition) --------------------

\* z.allZonesList: the zones the resolver was constructed with, in order.
allZonesList == <<"a", "b", "c">>

TableZones == {allZonesList[k] : k \in 1..Len(allZonesList)}

\* types.ZoneStatus: ZoneDrainStatusInvalid, Healthy, Drained.
ZoneStatus == {"invalid", "healthy", "drained"}

\* The zone names a caller may ask about: the configured zones, a zone the
\* resolver does not know, and the empty name.
QueryZones == TableZones \cup {"x", ""}

\* What the two collaborators of the resolver can do when called: the domain
\* cache answers or returns an error; the global drain store answers,
\* returns an error, or panics (globalZoneDrainsImpl.GetClusterDrains).
CacheOutcomes == {"ok", "error"}

DrainsOutcomes == {"ok", "error", "panic"}

\* The 32-bit hash of a run-id, kept as two 16-bit halves.
HashValues ==
  { [hi |-> 0, lo |-> 0], [hi |-> 0, lo |-> 1], [hi |-> 0, lo |-> 2],
    [hi |-> 32768, lo |-> 0], [hi |-> 65535, lo |-> 65535] }

\* int(hashv) % n for a uint32 hashv and an int n > 0 (int is 64 bits wide,
\* so the conversion keeps the value).
HashMod(h, n) == (((h.hi % n) * (65536 % n)) + (h.lo % n)) % n

\* The resolver and the partitioner as their constructors leave them, next
\* to the tables of their environment: the feature gate for the domain, the
\* domain's ZoneConfig and the global drain table (an entry "absent" is a
\* key the map does not hold).  NewDefaultTaskResolver sets the logger only
\* and NewDefaultZoneStateWatcher the logger, the zone list and the config:
\* r.drainState, z.domainCache and z.globalZoneDrains are nil (FALSE).
ZoneEnvs ==
  [ enabled          : BOOLEAN,
    domainCfg        : [TableZones -> {"absent", "healthy", "drained"}],
    drains           : [TableZones -> {"absent"} \cup ZoneStatus],
    drainState       : {FALSE},
    domainCache      : {FALSE},
    globalZoneDrains : {FALSE} ]

defaultZoneEnv ==
  [ enabled          |-> FALSE,
    domainCfg        |-> [z \in TableZones |-> "absent"],
    drains           |-> [z \in TableZones |-> "absent"],
    drainState       |-> FALSE,
    domainCache      |-> FALSE,
    globalZoneDrains |-> FALSE ]

\* A Go map lookup `cfg, ok := m[zone]`.
ZoneLookup(table, zone) ==
  IF zone \in DOMAIN table THEN table[zone] ELSE "absent"

noZone == [name |-> "", status |-> "none"]

zoneResult(zone, err, cacheRead, drainsRead) ==
  [zone |-> zone, err |-> err, cacheRead |-> cacheRead,
   drainsRead |-> drainsRead]

\* Variant: any entry of the domain's ZoneConfig overrides the global table.
GetDomainOverrideWins(env, zone, cache, drains) ==
  IF ~env.enabled
  THEN zoneResult([name |-> zone, status |-> "healthy"], "none", FALSE, FALSE)
  ELSE IF ~env.domainCache
  THEN zoneResult(noZone, "panicNilPointer", FALSE, FALSE)
  ELSE IF cache = "error"
  THEN zoneResult(noZone, "domain", TRUE, FALSE)
  ELSE LET cfg == ZoneLookup(env.domainCfg, zone)
       IN  IF cfg # "absent"
           THEN zoneResult([name |-> zone, status |-> cfg], "none", TRUE, FALSE)
           ELSE IF ~env.globalZoneDrains
           THEN zoneResult(noZone, "panicNilPointer", TRUE, FALSE)
           ELSE IF drains = "panic"
           THEN zoneResult(noZone, "panicNotImplemented", TRUE, TRUE)
           ELSE IF drains = "error"
           THEN zoneResult(noZone, "drains", TRUE, TRUE)
           ELSE LET globalCfg == ZoneLookup(env.drains, zone)
                IN  IF globalCfg # "absent"
                    THEN zoneResult([name |-> zone, status |-> globalCfg],
                                    "none", TRUE, TRUE)
                    ELSE zoneResult([name |-> zone, status |-> "healthy"],
                                    "none", TRUE, TRUE)

\* Variant: the domain cache is asked before the feature gate is looked at.
GetCacheBeforeGate(env, zone, cache, drains) ==
  IF ~env.domainCache
  THEN zoneResult(noZone, "panicNilPointer", FALSE, FALSE)
  ELSE IF cache = "error"
  THEN zoneResult(noZone, "domain", TRUE, FALSE)
  ELSE zoneResult([name |-> zone, status |-> "healthy"], "none", TRUE, FALSE)

\* DefaultZoneStateHandler.Get.  A call through a nil collaborator (lines
\* 126 and 135) is a nil-pointer panic.
Get(env, zone, cache, drains) ==
  IF ~env.enabled
  THEN zoneResult([name |-> zone, status |-> "healthy"], "none", FALSE, FALSE)
  ELSE IF ~env.domainCache
  THEN zoneResult(noZone, "panicNilPointer", FALSE, FALSE)
  ELSE IF cache = "error"
  THEN zoneResult(noZone, "domain", TRUE, FALSE)
  ELSE LET cfg == ZoneLookup(env.domainCfg, zone)
       IN  IF cfg = "drained"
           THEN zoneResult([name |-> zone, status |-> cfg], "none", TRUE, FALSE)
           ELSE IF ~env.globalZoneDrains
           THEN zoneResult(noZone, "panicNilPointer", TRUE, FALSE)
           ELSE IF drains = "panic"
           THEN zoneResult(noZone, "panicNotImplemented", TRUE, TRUE)
           ELSE IF drains = "error"
           THEN zoneResult(noZone, "drains", TRUE, TRUE)
           ELSE LET globalCfg == ZoneLookup(env.drains, zone)
                IN  IF globalCfg # "absent"
                    THEN zoneResult([name |-> zone, status |-> globalCfg],
                                    "none", TRUE, TRUE)
                    ELSE zoneResult([name |-> zone, status |-> "healthy"],
                                    "none", TRUE, TRUE)

isPanic(err) ==
  err \in {"panicNotImplemented", "panicDivideByZero", "panicNilPointer"}

\* DefaultPartitioner.IsDrained.  With r.drainState nil the call at line 56
\* is a nil-pointer panic.
IsDrained(env, zone, cache, drains) ==
  IF ~env.drainState
  THEN [drained |-> FALSE, err |-> "panicNilPointer"]
  ELSE LET state == Get(env, zone, cache, drains)
       IN  IF isPanic(state.err)
           THEN [drained |-> FALSE, err |-> state.err]
           ELSE IF state.err # "none"
           THEN [drained |-> FALSE, err |-> "couldNotDetermineIfDrained"]
           ELSE [drained |-> state.zone.status = "drained", err |-> "none"]

\* DefaultZoneStateHandler.ListAll: the loop over allZonesList from index k.
RECURSIVE listAllFrom(_, _, _, _, _)
listAllFrom(env, k, out, cache, drains) ==
  IF k > Len(allZonesList)
  THEN [zones |-> out, err |-> "none"]
  ELSE LET zoneData == Get(env, allZonesList[k], cache, drains)
       IN  IF isPanic(zoneData.err)
           THEN [zones |-> <<>>, err |-> zoneData.err]
           ELSE IF zoneData.err # "none"
           THEN [zones |-> <<>>, err |-> "failedToGetZoneDuringListing"]
           ELSE listAllFrom(env, k + 1, Append(out, zoneData.zone),
                            cache, drains)

ListAll(env, cache, drains) == listAllFrom(env, 1, <<>>, cache, drains)

isHealthy(zone) == zone.status = "healthy"

\* The availableZones slice of pickZoneAfterDrain.
availableZones(zones) ==
  LET healthy == SelectSeq(zones, isHealthy)
  IN  [k \in 1..Len(healthy) |-> healthy[k].name]

\* Variant: the pick indexes the whole list, healthy or not.
pickZoneAfterDrainUnfiltered(zones, hashv) ==
  IF Len(zones) = 0
  THEN [zone |-> "", err |-> "panicDivideByZero"]
  ELSE [zone |-> zones[HashMod(hashv, Len(zones)) + 1].name, err |-> "none"]

\* pickZoneAfterDrain: the remainder by len(availableZones) panics when no
\* zone is healthy.
pickZoneAfterDrain(zones, hashv) ==
  LET available == availableZones(zones)
  IN  IF Len(available) = 0
      THEN [zone |-> "", err |-> "panicDivideByZero"]
      ELSE [zone |-> available[HashMod(hashv, Len(available)) + 1],
            err |-> "none"]

\* Partition hints as JSON documents: text that does not decode, an object
\* without the wf-start-zone key, or an object with it.  The run-id is
\* carried as its hash.
HintZones == {"a", "b", "x", ""}

Hints ==
  {[valid |-> FALSE, hasZone |-> FALSE, zone |-> "", run |-> [hi |-> 0, lo |-> 0]]}
    \cup {[valid |-> TRUE, hasZone |-> FALSE, zone |-> "", run |-> r] :
            r \in HashValues}
    \cup {[valid |-> TRUE, hasZone |-> TRUE, zone |-> z, run |-> r] :
            z \in HintZones, r \in HashValues}

\* json.Unmarshal into DefaultPartitionConfig: a missing key leaves the
\* field at its zero value.
Unmarshal(hint) ==
  IF ~hint.valid
  THEN [err |-> TRUE, WorkflowStartZone |-> "", RunID |-> hint.run]
  ELSE [err |-> FALSE,
        WorkflowStartZone |-> IF hint.hasZone THEN hint.zone ELSE "",
        RunID |-> hint.run]

taskZone(ok, zone, err) == [ok |-> ok, zone |-> zone, err |-> err]

\* DefaultPartitioner.GetTaskZone.
GetTaskZone(env, hint, cache, drains) ==
  LET partitionData == Unmarshal(hint)
  IN  IF partitionData.err
      THEN taskZone(FALSE, "", "failedToDecodePartitionConfig")
      ELSE
        LET isDrained == IsDrained(env, partitionData.WorkflowStartZone,
                                   cache, drains)
        IN  IF isPanic(isDrained.err)
            THEN taskZone(FALSE, "", isDrained.err)
            ELSE IF isDrained.err # "none"
            THEN taskZone(FALSE, "", "failedToDetermineIfDrained")
            ELSE IF isDrained.drained
            THEN LET zones == ListAll(env, cache, drains)
                 IN  IF isPanic(zones.err)
                     THEN taskZone(FALSE, "", zones.err)
                     ELSE IF zones.err # "none"
                     THEN taskZone(FALSE, "", "failedToListAllZones")
                     ELSE LET pick == pickZoneAfterDrain(zones.zones,
                                                         partitionData.RunID)
                          IN  IF pick.err # "none"
                              THEN taskZone(FALSE, "", pick.err)
                              ELSE taskZone(TRUE, pick.zone, "none")
            ELSE taskZone(TRUE, partitionData.WorkflowStartZone, "none")

noCall == [op |-> "none"]

\* The second writer before its Start: no lease, no block, nothing written.
noPeer == [pc |-> "fresh", stopped |-> FALSE, rangeID |-> 0,
           block |-> noBlock, ids |-> <<>>, commits |-> <<>>]

\* ---- initial state: after newTaskWriter ---------------------------------

InitTaskWriter ==
  /\ appendCh = <<>>
  /\ taskIDBlock = noBlock
  /\ maxReadLevel = 0
  /\ stopped = 0
  /\ stopChCloses = 0
  /\ dbRangeID = 0
  /\ storeRangeID \in 0..MaxInitRangeID
  /\ commits = <<>>
  /\ loopPc = "fresh"
  /\ reqs = <<>>
  /\ batchI = 0
  /\ taskIDs = <<>>
  /\ batchErr = "none"
  /\ respIdx = 0
  /\ cpc = [c \in Callers |-> "idle"]
  /\ cres = [c \in Callers |-> "none"]
  /\ afterStop = [c \in Callers |-> FALSE]
  /\ admitRes = [c \in Callers |-> "none"]
  /\ spc = [s \in Stoppers |-> "idle"]
  /\ calls = 0
  /\ takeovers = 0
  /\ startLevel = 0
  /\ lastAlloc = noAlloc

Init ==
  /\ InitTaskWriter
  /\ zoneEnv = defaultZoneEnv
  /\ zoneCall = noCall
  /\ peer = noPeer

\* ---- Stop ----------------------------------------------------------------

\* Variant: a plain store instead of the compare-and-swap.
StopNoCAS(s) ==
  /\ spc[s] = "idle"
  /\ stopped' = 1
  /\ spc' = [spc EXCEPT ![s] = "close"]
  /\ UNCHANGED <<appendCh, taskIDBlock, maxReadLevel, stopChCloses,
                 dbRangeID, storeRangeID, commits, loopPc, reqs, batchI,
                 taskIDs, batchErr, respIdx, cpc, cres, afterStop, admitRes,
                 calls, takeovers, startLevel, lastAlloc>>
  /\ UNCHANGED partVars
  /\ UNCHANGED peer

\* Stop, line 114: the compare-and-swap on w.stopped.
StopCAS(s) ==
  /\ spc[s] = "idle"
  /\ IF stopped = 0
     THEN /\ stopped' = 1
          /\ spc' = [spc EXCEPT ![s] = "close"]
     ELSE /\ UNCHANGED stopped
          /\ spc' = [spc EXCEPT ![s] = "done"]
  /\ UNCHANGED <<appendCh, taskIDBlock, maxReadLevel, stopChCloses,
                 dbRangeID, storeRangeID, commits, loopPc, reqs, batchI,
                 taskIDs, batchErr, respIdx, cpc, cres, afterStop, admitRes,
                 calls, takeovers, startLevel, lastAlloc>>
  /\ UNCHANGED partVars
  /\ UNCHANGED peer

\* Stop, line 115: close(w.stopCh).
StopClose(s) ==
  /\ spc[s] = "close"
  /\ stopChCloses' = stopChCloses + 1
  /\ spc' = [spc EXCEPT ![s] = "done"]
  /\ UNCHANGED <<appendCh, taskIDBlock, maxReadLevel, stopped,
                 dbRangeID, storeRangeID, commits, loopPc, reqs, batchI,
                 taskIDs, batchErr, respIdx, cpc, cres, afterStop, admitRes,
                 calls, takeovers, startLevel, lastAlloc>>
  /\ UNCHANGED partVars
  /\ UNCHANGED peer

\* taskListManager.Stop as called by the writer's own goroutines (from
\* renewLeaseWithRetry in Start and in the loop, and from handleErr): it
\* runs w.Stop().  Where the goroutine goes on once Stop has returned: Start
\* returns the error, allocTaskIDs returns it to the loop, the loop goes on
\* to line 242.
afterTlMgrStop(pc) ==
  IF pc \in {"startStop", "startClose"} THEN "fresh"
  ELSE IF pc \in {"allocStop", "allocClose"} THEN "respond"
  ELSE "publish"

closeAfterCAS(pc) ==
  IF pc = "startStop" THEN "startClose"
  ELSE IF pc = "allocStop" THEN "allocClose"
  ELSE "commitClose"

\* Stop, line 114, in tlMgr.Stop(): the compare-and-swap on w.stopped.
tlMgrStopCAS ==
  /\ loopPc \in {"startStop", "allocStop", "commitStop"}
  /\ IF stopped = 0
     THEN /\ stopped' = 1
          /\ loopPc' = closeAfterCAS(loopPc)
     ELSE /\ UNCHANGED stopped
          /\ loopPc' = afterTlMgrStop(loopPc)
  /\ UNCHANGED <<appendCh, taskIDBlock, maxReadLevel, stopChCloses,
                 dbRangeID, storeRangeID, commits, reqs, batchI, taskIDs,
                 batchErr, respIdx, cpc, cres, afterStop, admitRes, spc,
                 calls, takeovers, startLevel, lastAlloc>>
  /\ UNCHANGED partVars
  /\ UNCHANGED peer

\* Stop, line 115, in tlMgr.Stop(): close(w.stopCh).
tlMgrStopClose ==
  /\ loopPc \in {"startClose", "allocClose", "commitClose"}
  /\ stopChCloses' = stopChCloses + 1
  /\ loopPc' = afterTlMgrStop(loopPc)
  /\ UNCHANGED <<appendCh, taskIDBlock, maxReadLevel, stopped,
                 dbRangeID, storeRangeID, commits, reqs, batchI, taskIDs,
                 batchErr, respIdx, cpc, cres, afterStop, admitRes, spc,
                 calls, takeovers, startLevel, lastAlloc>>
  /\ UNCHANGED partVars
  /\ UNCHANGED peer

\* ---- Start ---------------------------------------------------------------

\* Variant: Start adopts the stored range-id instead of renewing the lease.
StartAdoptsStoredRange(fault) ==
  /\ loopPc = "fresh"
  /\ dbRangeID' = storeRangeID
  /\ loopPc' = "startInit"
  /\ UNCHANGED <<appendCh, taskIDBlock, maxReadLevel, stopped, stopChCloses,
                 storeRangeID, commits, reqs, batchI, taskIDs, batchErr,
                 respIdx, cpc, cres, afterStop, admitRes, spc, calls,
                 takeovers, startLevel, lastAlloc>>
  /\ UNCHANGED partVars
  /\ UNCHANGED peer

\* Start, lines 99-102: the store call of renewLeaseWithRetry.  Start has no
\* guard of its own: after a Start that returned the error it runs again.
Start(fault) ==
  /\ loopPc = "fresh"
  /\ LET state == renewLeaseWithRetry(dbRangeID, storeRangeID, fault)
     IN  IF state.stop
         THEN /\ loopPc' = "startStop"
              /\ UNCHANGED <<dbRangeID, storeRangeID>>
         ELSE /\ dbRangeID' = state.rangeID
              /\ storeRangeID' = state.rangeID
              /\ loopPc' = "startInit"
  /\ UNCHANGED <<appendCh, taskIDBlock, maxReadLevel, stopped, stopChCloses,
                 commits, reqs, batchI, taskIDs, batchErr, respIdx, cpc, cres,
                 afterStop, admitRes, spc, calls, takeovers, startLevel,
                 lastAlloc>>
  /\ UNCHANGED partVars
  /\ UNCHANGED peer

\* Start, lines 104-109: the block of the granted range-id, maxReadLevel,
\* and the loop goroutine.  state.rangeID is the range-id w.db caches:
\* nothing else renews through this taskListDB before the loop runs.
StartInit ==
  /\ loopPc = "startInit"
  /\ LET block == rangeIDToTaskIDBlock(dbRangeID, RangeSize)
     IN  /\ taskIDBlock' = block
         /\ maxReadLevel' = block.start - 1
         /\ startLevel' = block.start - 1
  /\ loopPc' = "select"
  /\ UNCHANGED <<appendCh, stopped, stopChCloses, dbRangeID, storeRangeID,
                 commits, reqs, batchI, taskIDs, batchErr, respIdx, cpc, cres,
                 afterStop, admitRes, spc, calls, takeovers, lastAlloc>>
  /\ UNCHANGED partVars
  /\ UNCHANGED peer

\* The next step of the goroutine that calls Start.
StartStep ==
  \/ \E fault \in BOOLEAN : Start(fault)
  \/ StartInit
  \/ (loopPc \in {"startStop", "startClose"} /\ (tlMgrStopCAS \/ tlMgrStopClose))

\* ---- appendTask ----------------------------------------------------------

\* appendTask, lines 126-128: the isStopped check at the start of a call.
AppendBegin(c) ==
  /\ cpc[c] \in {"idle", "done"}
  /\ calls < MaxCalls
  /\ calls' = calls + 1
  /\ afterStop' = [afterStop EXCEPT ![c] = StopReturned]
  /\ IF isStopped
     THEN /\ cpc' = [cpc EXCEPT ![c] = "done"]
          /\ cres' = [cres EXCEPT ![c] = "errShutdown"]
     ELSE /\ cpc' = [cpc EXCEPT ![c] = "send"]
          /\ cres' = [cres EXCEPT ![c] = "none"]
  /\ UNCHANGED <<writerVars, admitRes, spc, takeovers, startLevel, lastAlloc>>
  /\ UNCHANGED partVars
  /\ UNCHANGED peer

\* Variant: the send admits one request more than the threshold.
AppendSelectOffByOne(c) ==
  /\ cpc[c] = "send"
  /\ IF Len(appendCh) <= OutstandingTaskAppendsThreshold
     THEN /\ appendCh' = Append(appendCh, c)
          /\ cpc' = [cpc EXCEPT ![c] = "waiting"]
          /\ admitRes' = [admitRes EXCEPT ![c] = "pending"]
          /\ UNCHANGED cres
     ELSE /\ cpc' = [cpc EXCEPT ![c] = "done"]
          /\ cres' = [cres EXCEPT ![c] = "ServiceBusy"]
          /\ UNCHANGED <<appendCh, admitRes>>
  /\ UNCHANGED <<taskIDBlock, maxReadLevel, stopped, stopChCloses, dbRangeID,
                 storeRangeID, commits, loopPc, reqs, batchI, taskIDs,
                 batchErr, respIdx, afterStop, spc, calls, takeovers,
                 startLevel, lastAlloc>>
  /\ UNCHANGED partVars
  /\ UNCHANGED peer

\* appendTask, lines 137-138 and 147-148: the non-blocking send.
AppendSelect(c) ==
  /\ cpc[c] = "send"
  /\ IF Len(appendCh) < OutstandingTaskAppendsThreshold
     THEN /\ appendCh' = Append(appendCh, c)
          /\ cpc' = [cpc EXCEPT ![c] = "waiting"]
          /\ admitRes' = [admitRes EXCEPT ![c] = "pending"]
          /\ UNCHANGED cres
     ELSE /\ cpc' = [cpc EXCEPT ![c] = "done"]
          /\ cres' = [cres EXCEPT ![c] = "ServiceBusy"]
          /\ UNCHANGED <<appendCh, admitRes>>
  /\ UNCHANGED <<taskIDBlock, maxReadLevel, stopped, stopChCloses, dbRangeID,
                 storeRangeID, commits, loopPc, reqs, batchI, taskIDs,
                 batchErr, respIdx, afterStop, spc, calls, takeovers,
                 startLevel, lastAlloc>>
  /\ UNCHANGED partVars
  /\ UNCHANGED peer

\* Variant: the caller waits for its response only, without a stop branch.
AppendNoStopBranch(c) ==
  /\ cpc[c] = "waiting"
  /\ FALSE
  /\ UNCHANGED vars

\* appendTask, lines 142-145: the stop branch of the inner select.
AppendStopBranch(c) ==
  /\ cpc[c] = "waiting"
  /\ stopChClosed
  /\ cpc' = [cpc EXCEPT ![c] = "done"]
  /\ cres' = [cres EXCEPT ![c] = "errShutdown"]
  /\ admitRes' = [admitRes EXCEPT ![c] = "errShutdown"]
  /\ UNCHANGED <<writerVars, afterStop, spc, calls, takeovers, startLevel,
                 lastAlloc>>
  /\ UNCHANGED partVars
  /\ UNCHANGED peer

\* ---- taskWriterLoop ------------------------------------------------------

\* lines 205-209: the select receives one request.
LoopReceive ==
  /\ loopPc = "select"
  /\ appendCh # <<>>
  /\ reqs' = <<Head(appendCh)>>
  /\ appendCh' = Tail(appendCh)
  /\ batchI' = 0
  /\ loopPc' = "batch"
  /\ UNCHANGED <<taskIDBlock, maxReadLevel, stopped, stopChCloses, dbRangeID,
                 storeRangeID, commits, taskIDs, batchErr, respIdx, cpc, cres,
                 afterStop, admitRes, spc, calls, takeovers, startLevel,
                 lastAlloc>>
  /\ UNCHANGED partVars
  /\ UNCHANGED peer

\* Variant: the loop leaves its select without the stop signal.
LoopExitWithoutStop ==
  /\ loopPc = "select"
  /\ loopPc' = "exited"
  /\ UNCHANGED <<appendCh, taskIDBlock, maxReadLevel, stopped, stopChCloses,
                 dbRangeID, storeRangeID, commits, reqs, batchI, taskIDs,
                 batchErr, respIdx, cpc, cres, afterStop, admitRes, spc,
                 calls, takeovers, startLevel, lastAlloc>>
  /\ UNCHANGED partVars
  /\ UNCHANGED peer

\* lines 248-252: the select takes the stop branch.
LoopExit ==
  /\ loopPc = "select"
  /\ stopChClosed
  /\ loopPc' = "exited"
  /\ UNCHANGED <<appendCh, taskIDBlock, maxReadLevel, stopped, stopChCloses,
                 dbRangeID, storeRangeID, commits, reqs, batchI, taskIDs,
                 batchErr, respIdx, cpc, cres, afterStop, admitRes, spc,
                 calls, takeovers, startLevel, lastAlloc>>
  /\ UNCHANGED partVars
  /\ UNCHANGED peer

\* getWriteBatch: one iteration of its for loop, or its exit.
getWriteBatch ==
  /\ loopPc = "batch"
  /\ IF batchI < MaxTaskBatchSize /\ appendCh # <<>>
     THEN /\ reqs' = Append(reqs, Head(appendCh))
          /\ appendCh' = Tail(appendCh)
          /\ batchI' = batchI + 1
          /\ UNCHANGED loopPc
     ELSE /\ loopPc' = "alloc"
          /\ UNCHANGED <<reqs, appendCh, batchI>>
  /\ UNCHANGED <<taskIDBlock, maxReadLevel, stopped, stopChCloses, dbRangeID,
                 storeRangeID, commits, taskIDs, batchErr, respIdx, cpc, cres,
                 afterStop, admitRes, spc, calls, takeovers, startLevel,
                 lastAlloc>>
  /\ UNCHANGED partVars
  /\ UNCHANGED peer

\* The record of an allocTaskIDs call that is going on or has returned.
allocRecord(ids, err, renewals, rangeAfter) ==
  [lastAlloc EXCEPT !.ids = ids, !.err = err, !.renewals = renewals,
                    !.rangeAfter = rangeAfter]

\* lines 215 and 158-169: allocTaskIDs(batchSize) takes IDs from the
\* current block; it returns when it has them all, and calls
\* allocTaskIDBlock when the block runs out first.
LoopAlloc ==
  /\ loopPc = "alloc"
  /\ LET st == allocLoop([block |-> taskIDBlock, result |-> <<>>], Len(reqs))
         done == Len(st.result) >= Len(reqs)
     IN  /\ taskIDBlock' = st.block
         /\ taskIDs' = st.result
         /\ loopPc' = IF done THEN "commit" ELSE "allocBlock"
         /\ lastAlloc' = [n |-> Len(reqs), ids |-> st.result,
                          err |-> IF done THEN "none" ELSE "running",
                          before |-> taskIDBlock, rangeBefore |-> dbRangeID,
                          rangeAfter |-> dbRangeID, renewals |-> 0]
  /\ UNCHANGED <<appendCh, maxReadLevel, stopped, stopChCloses, dbRangeID,
                 storeRangeID, commits, reqs, batchI, batchErr, respIdx, cpc,
                 cres, afterStop, admitRes, spc, calls, takeovers,
                 startLevel>>
  /\ UNCHANGED partVars
  /\ UNCHANGED peer

\* allocTaskIDBlock, lines 174-178: read w.db.RangeID() and compare the
\* block ends; on a mismatch allocTaskIDs returns the invalid-state error
\* (lines 162-164) and the loop goes to sendWriteResponse (lines 216-219).
LoopAllocBlock ==
  /\ loopPc = "allocBlock"
  /\ IF invalidState(taskIDBlock.end, dbRangeID)
     THEN LET failed == allocFail(taskIDs, "InvalidState")
          IN  /\ taskIDs' = failed.ids
              /\ batchErr' = failed.err
              /\ respIdx' = 1
              /\ loopPc' = "respond"
              /\ lastAlloc' = allocRecord(failed.ids, failed.err,
                                          lastAlloc.renewals, dbRangeID)
     ELSE /\ loopPc' = "allocRenew"
          /\ UNCHANGED <<taskIDs, batchErr, respIdx, lastAlloc>>
  /\ UNCHANGED <<appendCh, taskIDBlock, maxReadLevel, stopped, stopChCloses,
                 dbRangeID, storeRangeID, commits, reqs, batchI, cpc, cres,
                 afterStop, admitRes, spc, calls, takeovers, startLevel>>
  /\ UNCHANGED partVars
  /\ UNCHANGED peer

\* allocTaskIDBlock, lines 179-183, with the store call of
\* renewLeaseWithRetry: on success the new block is adopted (line 165) and
\* the for loop goes on in it; on failure tlMgr.Stop() is called and
\* allocTaskIDs returns the error and no IDs.
LoopRenewLease(fault) ==
  /\ loopPc = "allocRenew"
  /\ LET state == renewLeaseWithRetry(dbRangeID, storeRangeID, fault)
         newBlock == allocTaskIDBlock(taskIDBlock.end, state)
     IN  IF newBlock.err # "none"
         THEN LET failed == allocFail(taskIDs, newBlock.err)
              IN  /\ taskIDs' = failed.ids
                  /\ batchErr' = failed.err
                  /\ respIdx' = 1
                  /\ loopPc' = IF state.stop THEN "allocStop" ELSE "respond"
                  /\ lastAlloc' = allocRecord(failed.ids, failed.err,
                                              lastAlloc.renewals, dbRangeID)
                  /\ UNCHANGED <<taskIDBlock, dbRangeID, storeRangeID>>
         ELSE LET st == allocLoop([block |-> newBlock.block,
                                   result |-> taskIDs], Len(reqs))
                  done == Len(st.result) >= Len(reqs)
              IN  /\ dbRangeID' = state.rangeID
                  /\ storeRangeID' = state.rangeID
                  /\ taskIDBlock' = st.block
                  /\ taskIDs' = st.result
                  /\ loopPc' = IF done THEN "commit" ELSE "allocBlock"
                  /\ lastAlloc' = allocRecord(st.result,
                                              IF done THEN "none" ELSE "running",
                                              lastAlloc.renewals + 1,
                                              state.rangeID)
                  /\ UNCHANGED <<batchErr, respIdx>>
  /\ UNCHANGED <<appendCh, maxReadLevel, stopped, stopChCloses, commits, reqs,
                 batchI, cpc, cres, afterStop, admitRes, spc, calls,
                 takeovers, startLevel>>
  /\ UNCHANGED partVars
  /\ UNCHANGED peer

\* Variant: a failed commit gives its IDs back to the block.
LoopCommitReusesIDs(fault) ==
  /\ loopPc = "commit"
  /\ LET err == CreateTasks(dbRangeID, storeRangeID, fault)
     IN  /\ commits' = Append(commits,
                              [ids |-> taskIDs, reqs |-> reqs, err |-> err])
         /\ batchErr' = err
         /\ loopPc' = IF handleErr(err) THEN "commitStop" ELSE "publish"
         /\ taskIDBlock' = IF err = "none" THEN taskIDBlock
                           ELSE [taskIDBlock EXCEPT !.start = taskIDs[1]]
  /\ UNCHANGED <<appendCh, maxReadLevel, stopped, stopChCloses, dbRangeID,
                 storeRangeID, reqs, batchI, taskIDs, respIdx, cpc, cres,
                 afterStop, admitRes, spc, calls, takeovers, startLevel,
                 lastAlloc>>
  /\ UNCHANGED partVars
  /\ UNCHANGED peer

\* Variant: the commit error is not passed on to sendWriteResponse.
LoopCommitDropsError(fault) ==
  /\ loopPc = "commit"
  /\ LET err == CreateTasks(dbRangeID, storeRangeID, fault)
     IN  /\ commits' = Append(commits,
                              [ids |-> taskIDs, reqs |-> reqs, err |-> err])
         /\ batchErr' = "none"
         /\ loopPc' = IF handleErr(err) THEN "commitStop" ELSE "publish"
  /\ UNCHANGED <<appendCh, taskIDBlock, maxReadLevel, stopped, stopChCloses,
                 dbRangeID, storeRangeID, reqs, batchI, taskIDs, respIdx, cpc,
                 cres, afterStop, admitRes, spc, calls, takeovers, startLevel,
                 lastAlloc>>
  /\ UNCHANGED partVars
  /\ UNCHANGED peer

\* lines 221-232: build the tasks and call CreateTasks; handleErr looks at
\* the error and, for a condition failure, calls tlMgr.Stop().
LoopCommit(fault) ==
  /\ loopPc = "commit"
  /\ LET err == CreateTasks(dbRangeID, storeRangeID, fault)
     IN  /\ commits' = Append(commits,
                              [ids |-> taskIDs, reqs |-> reqs, err |-> err])
         /\ batchErr' = err
         /\ loopPc' = IF handleErr(err) THEN "commitStop" ELSE "publish"
  /\ UNCHANGED <<appendCh, taskIDBlock, maxReadLevel, stopped, stopChCloses,
                 dbRangeID, storeRangeID, reqs, batchI, taskIDs, respIdx, cpc,
                 cres, afterStop, admitRes, spc, calls, takeovers, startLevel,
                 lastAlloc>>
  /\ UNCHANGED partVars
  /\ UNCHANGED peer

\* lines 241-246: the atomic store of maxReadLevel, then sendWriteResponse.
LoopPublish ==
  /\ loopPc = "publish"
  /\ LET level == taskIDs[Len(taskIDs)]
     IN  maxReadLevel' = IF level > 0 THEN level ELSE maxReadLevel
  /\ respIdx' = 1
  /\ loopPc' = "respond"
  /\ UNCHANGED <<appendCh, taskIDBlock, stopped, stopChCloses, dbRangeID,
                 storeRangeID, commits, reqs, batchI, taskIDs, batchErr, cpc,
                 cres, afterStop, admitRes, spc, calls, takeovers, startLevel,
                 lastAlloc>>
  /\ UNCHANGED partVars
  /\ UNCHANGED peer

\* sendWriteResponse: one send on an unbuffered response channel, which
\* completes only together with the caller's receive (lines 140-141).
sendWriteResponse ==
  /\ loopPc = "respond"
  /\ LET c == reqs[respIdx]
     IN  /\ cpc[c] = "waiting"
         /\ cpc' = [cpc EXCEPT ![c] = "done"]
         /\ cres' = [cres EXCEPT ![c] = batchErr]
         /\ admitRes' = [admitRes EXCEPT ![c] = batchErr]
  /\ IF respIdx < Len(reqs)
     THEN /\ respIdx' = respIdx + 1
          /\ UNCHANGED <<loopPc, reqs, taskIDs, batchErr, batchI>>
     ELSE /\ loopPc' = "select"
          /\ respIdx' = 0
          /\ reqs' = <<>>
          /\ taskIDs' = <<>>
          /\ batchErr' = "none"
          /\ batchI' = 0
  /\ UNCHANGED <<appendCh, taskIDBlock, maxReadLevel, stopped, stopChCloses,
                 dbRangeID, storeRangeID, commits, afterStop, spc, calls,
                 takeovers, startLevel, lastAlloc>>
  /\ UNCHANGED partVars
  /\ UNCHANGED peer

\* ---- environment ---------------------------------------------------------

\* Another owner of the task list renews the lease in the store.
LeaseTakenOver ==
  /\ takeovers < MaxTakeovers
  /\ takeovers' = takeovers + 1
  /\ storeRangeID' = storeRangeID + 1
  /\ UNCHANGED <<appendCh, taskIDBlock, maxReadLevel, stopped, stopChCloses,
                 dbRangeID, commits, loopPc, reqs, batchI, taskIDs, batchErr,
                 respIdx, cpc, cres, afterStop, admitRes, spc, calls,
                 startLevel, lastAlloc>>
  /\ UNCHANGED partVars
  /\ UNCHANGED peer

\* The next step of the writer loop goroutine, wherever it stands.
LoopStep ==
  \/ LoopReceive
  \/ LoopExit
  \/ getWriteBatch
  \/ LoopAlloc
  \/ LoopAllocBlock
  \/ \E fault \in BOOLEAN : LoopRenewLease(fault)
  \/ \E fault \in BOOLEAN : LoopCommit(fault)
  \/ (loopPc \in {"allocStop", "allocClose", "commitStop", "commitClose"}
        /\ (tlMgrStopCAS \/ tlMgrStopClose))
  \/ LoopPublish
  \/ sendWriteResponse

Next ==
  \/ \E fault \in BOOLEAN : Start(fault)
  \/ StartInit
  \/ tlMgrStopCAS
  \/ tlMgrStopClose
  \/ \E s \in Stoppers : StopCAS(s)
  \/ \E s \in Stoppers : StopClose(s)
  \/ \E c \in Callers : AppendBegin(c)
  \/ \E c \in Callers : AppendSelect(c)
  \/ \E c \in Callers : AppendStopBranch(c)
  \/ LoopReceive
  \/ LoopExit
  \/ getWriteBatch
  \/ LoopAlloc
  \/ LoopAllocBlock
  \/ \E fault \in BOOLEAN : LoopRenewLease(fault)
  \/ \E fault \in BOOLEAN : LoopCommit(fault)
  \/ LoopPublish
  \/ sendWriteResponse
  \/ LeaseTakenOver

Spec == Init /\ [][Next]_vars

\* ---- the store as the commits left it ------------------------------------

RECURSIVE committedFrom(_)
\* The task IDs written to the store by commits[k..], in commit order.
committedFrom(k) ==
  IF k > Len(commits) THEN <<>>
  ELSE (IF commits[k].err = "none" THEN commits[k].ids ELSE <<>>)
       \o committedFrom(k + 1)

CommittedTaskIDs == committedFrom(1)

SeqRange(q) == {q[k] : k \in 1..Len(q)}

StrictlyIncreasing(q) == \A k \in 1..(Len(q) - 1) : q[k] < q[k + 1]

\* Start has returned nil: the block is set and the loop goroutine exists.
Started == loopPc \notin {"fresh", "startInit", "startStop", "startClose"}

\* ---- C1 ------------------------------------------------------------------

\* C1: max-read-level is published only after a successful commit: in every
\* state it is at most the highest task ID of the commits that succeeded, or
\* the value Start set when none has; a failed commit does not raise it.
C1_MaxReadLevelWithinCommitted ==
  Started =>
    \/ maxReadLevel = startLevel
    \/ \E id \in SeqRange(CommittedTaskIDs) : maxReadLevel <= id

\* ---- C2 ------------------------------------------------------------------

\* C2: from the value block.start - 1 that Start sets, the value returned by
\* GetMaxReadLevel never decreases in any step of any thread.
C2_MaxReadLevelMonotonic ==
  [][maxReadLevel' >= maxReadLevel]_vars

\* C2 witness: the watermark has moved past the first block, across a lease
\* renewal, with a failed and a successful commit behind it.
C2_Witness ==
  /\ Started
  /\ maxReadLevel > startLevel + RangeSize
  /\ \E i, j \in 1..Len(commits) :
       commits[i].err # "none" /\ commits[j].err = "none"

\* ---- C3 ------------------------------------------------------------------

\* C3: the task IDs written to the store strictly increase in commit order,
\* across batches and inside each batch, also when a batch spans a renewal.
C3_CommittedIDsStrictlyIncrease ==
  StrictlyIncreasing(CommittedTaskIDs)

\* C3 witness: two committed batches, the later one holding IDs of two
\* blocks (the lease was renewed in the middle of its allocation).
C3_Witness ==
  \E i, j \in 1..Len(commits) :
    /\ i < j
    /\ commits[i].err = "none"
    /\ commits[j].err = "none"
    /\ \E k \in 1..(Len(commits[j].ids) - 1) :
         (commits[j].ids[k] - 1) \div RangeSize
           # (commits[j].ids[k + 1] - 1) \div RangeSize

\* ---- C4 ------------------------------------------------------------------

\* C4: an appendTask call that begins after a Stop call has returned returns
\* errShutdown at once: it never reaches the send on the admission queue and
\* never waits for a response.
C4_AppendAfterStopReturnsShutdown ==
  \A c \in Callers :
    afterStop[c] => (cpc[c] = "done" /\ cres[c] = "errShutdown")

\* C4 witness: a call begun after a Stop call returned (the one that lost the
\* compare-and-swap) while the stop channel was not closed yet; it returned
\* errShutdown.
C4_Witness ==
  \E c \in Callers :
    /\ afterStop[c]
    /\ cpc[c] = "done"
    /\ cres[c] = "errShutdown"
    /\ stopChCloses = 0

\* ---- C5 ------------------------------------------------------------------

\* C5: Stop is idempotent under sequential and concurrent calls: the stop
\* channel is closed at most once, and a Stop call that finds the writer
\* already stopped returns without changing any state of the writer.
C5_StopIdempotent ==
  /\ [](stopChCloses <= 1)
  /\ [][\A s \in Stoppers :
          (spc[s] = "idle" /\ spc'[s] # "idle" /\ stopped = 1)
            => (spc'[s] = "done" /\ UNCHANGED writerVars)]_vars

\* C5 witness: every Stop caller has returned and the channel was closed once.
C5_Witness ==
  /\ \A s \in Stoppers : spc[s] = "done"
  /\ stopped = 1
  /\ stopChCloses = 1

\* ---- C6 ------------------------------------------------------------------

\* C6: the admission queue never holds more than
\* OutstandingTaskAppendsThreshold requests; the send of a call that finds
\* it full returns ServiceBusy in that step and enqueues nothing, and the
\* send of a call that finds room enqueues the request and waits.
C6_AdmissionBounded ==
  /\ [](Len(appendCh) <= OutstandingTaskAppendsThreshold)
  /\ [][\A c \in Callers :
          (cpc[c] = "send" /\ cpc'[c] # "send") =>
            IF Len(appendCh) >= OutstandingTaskAppendsThreshold
            THEN /\ cpc'[c] = "done"
                 /\ cres'[c] = "ServiceBusy"
                 /\ appendCh' = appendCh
            ELSE /\ cpc'[c] = "waiting"
                 /\ appendCh' = Append(appendCh, c)]_vars

\* C6 witness: the queue is full of waiting callers' requests and one more
\* caller was turned away with ServiceBusy.
C6_Witness ==
  /\ Len(appendCh) = OutstandingTaskAppendsThreshold
  /\ \A d \in SeqRange(appendCh) : cpc[d] = "waiting"
  /\ \E c \in Callers :
       /\ c \notin SeqRange(appendCh)
       /\ cpc[c] = "done"
       /\ cres[c] = "ServiceBusy"

\* ---- C7 ------------------------------------------------------------------

\* C7: every batch handed to CreateTasks holds at least one and at most
\* MaxTaskBatchSize requests.
C7_BatchSizeWithinMax ==
  \A k \in 1..Len(commits) :
    /\ Len(commits[k].reqs) >= 1
    /\ Len(commits[k].reqs) <= MaxTaskBatchSize

\* ---- C8 ------------------------------------------------------------------

\* C8: after a commit failed on a range-id mismatch, with no Stop called
\* from outside, every request of that batch gets the lease-lost error
\* (none gets another answer); once handleErr has returned the writer is
\* stopped (the flag is set and the stop channel is closed), and no later
\* commit succeeds.
C8_LeaseLostFailsBatchAndStops ==
  \A k \in 1..Len(commits) :
    (commits[k].err = "ConditionFailed" /\ \A s \in Stoppers : spc[s] = "idle")
      =>
      /\ \A c \in SeqRange(commits[k].reqs) :
           admitRes[c] \in {"pending", "ConditionFailed"}
      /\ (k < Len(commits) \/ loopPc \notin {"commitStop", "commitClose"}) =>
           /\ stopped = 1
           /\ stopChClosed
      /\ \A j \in (k + 1)..Len(commits) : commits[j].err # "none"

\* ---- C9 ------------------------------------------------------------------

\* C9: a commit that fails with a persistence error other than a lost lease
\* does not stop the writer, neither in the step of CreateTasks nor in the
\* loop's steps up to sendWriteResponse; the loop hands that error to the
\* callers of the batch and goes back to the admission queue after the last
\* of them.
C9_PersistenceErrorKeepsWriterAlive ==
  [][/\ (/\ Len(commits') > Len(commits)
         /\ commits'[Len(commits')].err = "PersistenceError")
        => (/\ stopped' = stopped
            /\ stopChCloses' = stopChCloses
            /\ loopPc' = "publish"
            /\ batchErr' = "PersistenceError")
     /\ (/\ loopPc = "publish"
         /\ batchErr = "PersistenceError"
         /\ loopPc' # "publish")
        => (/\ stopped' = stopped
            /\ stopChCloses' = stopChCloses
            /\ loopPc' = "respond"
            /\ batchErr' = "PersistenceError")
     /\ (/\ loopPc = "respond"
         /\ batchErr = "PersistenceError"
         /\ respIdx' # respIdx)
        => (/\ cres'[reqs[respIdx]] = "PersistenceError"
            /\ (respIdx = Len(reqs) => loopPc' = "select"))]_vars

\* C9 witness: a commit failed with a persistence error, its caller got that
\* error, and a later batch was committed with the writer never stopped.
C9_Witness ==
  /\ stopped = 0
  /\ \E i, j \in 1..Len(commits) :
       /\ i < j
       /\ commits[i].err = "PersistenceError"
       /\ commits[j].err = "none"
       /\ \E c \in SeqRange(commits[i].reqs) : cres[c] = "PersistenceError"
       /\ \E d \in SeqRange(commits[j].reqs) :
            cpc[d] = "done" /\ cres[d] = "none"

\* ---- C10 -----------------------------------------------------------------

IsBlockStart(id) == (id - 1) % RangeSize = 0

\* C10: allocTaskIDs(n) returns n strictly increasing IDs or an error with
\* no IDs.  The IDs come from the block it started with and from the blocks
\* of the range-ids it renewed to; it renews once per block it runs out of
\* and hands out the first ID of every block it renews to.  With RangeSize
\* 2, block [1,2] and n = 3 the IDs are 1, 2, 3 and the range-id becomes 2.
C10_AllocTaskIDs ==
  (lastAlloc.n > 0 /\ lastAlloc.err # "running") =>
    IF lastAlloc.err = "none"
    THEN LET ids == lastAlloc.ids
             before == lastAlloc.before
             renewed == (lastAlloc.rangeBefore + 1)..lastAlloc.rangeAfter
         IN  /\ Len(ids) = lastAlloc.n
             /\ StrictlyIncreasing(ids)
             /\ lastAlloc.rangeAfter
                  = lastAlloc.rangeBefore + lastAlloc.renewals
             /\ lastAlloc.renewals
                  = Cardinality({k \in 1..Len(ids) :
                                   ids[k] > before.end /\ IsBlockStart(ids[k])})
             /\ \A k \in 1..Len(ids) :
                  \/ before.start <= ids[k] /\ ids[k] <= before.end
                  \/ \E r \in renewed :
                       /\ rangeIDToTaskIDBlock(r, RangeSize).start <= ids[k]
                       /\ ids[k] <= rangeIDToTaskIDBlock(r, RangeSize).end
             /\ \A r \in renewed :
                  rangeIDToTaskIDBlock(r, RangeSize).start \in SeqRange(ids)
             /\ (/\ RangeSize = 2
                 /\ before = [start |-> 1, end |-> 2]
                 /\ lastAlloc.n = 3)
                => (ids = <<1, 2, 3>> /\ lastAlloc.rangeAfter = 2)
    ELSE lastAlloc.ids = <<>>

\* C10 witness: the allocation of three IDs from block [1,2]: 1, 2, then 3
\* after one renewal to range-id 2.
C10_Witness ==
  /\ lastAlloc.before = [start |-> 1, end |-> 2]
  /\ lastAlloc.n = 3
  /\ lastAlloc.err = "none"
  /\ lastAlloc.ids = <<1, 2, 3>>
  /\ lastAlloc.renewals = 1
  /\ lastAlloc.rangeAfter = 2

\* ---- C11 -----------------------------------------------------------------

\* C11: every block the writer adopts is the interval of RangeSize IDs of the
\* range-id it was granted, and a block adopted on renewal belongs to a
\* larger range-id than the block before it and lies entirely above it, so
\* the adopted blocks are pairwise disjoint and ordered by range-id.
C11_BlocksDisjointOrderedByRangeID ==
  /\ Started =>
       LET granted == rangeIDToTaskIDBlock(dbRangeID, RangeSize)
       IN  /\ taskIDBlock.end = granted.end
           /\ granted.end - granted.start + 1 = RangeSize
           /\ granted.start <= taskIDBlock.start
           /\ taskIDBlock.start <= granted.end + 1
  /\ (lastAlloc.err = "none" /\ lastAlloc.renewals >= 1) =>
       LET adopted == rangeIDToTaskIDBlock(lastAlloc.rangeAfter, RangeSize)
       IN  /\ lastAlloc.rangeAfter > lastAlloc.rangeBefore
           /\ lastAlloc.before.end < adopted.start
           /\ taskIDBlock.end = adopted.end
           /\ \A k \in 1..Len(lastAlloc.ids) :
                lastAlloc.ids[k] > lastAlloc.before.end
                  => (/\ adopted.start <= lastAlloc.ids[k]
                      /\ lastAlloc.ids[k] <= adopted.end)

\* C11 witness: the writer has renewed the lease after Start and works in
\* the block of the new range-id.
C11_Witness ==
  /\ Started
  /\ lastAlloc.err = "none"
  /\ lastAlloc.renewals >= 1
  /\ dbRangeID = lastAlloc.rangeAfter
  /\ taskIDBlock.end = dbRangeID * RangeSize
  /\ lastAlloc.before.end = (dbRangeID - 1) * RangeSize

\* ---- C12 -----------------------------------------------------------------

RECURSIVE handedOutFrom(_)
\* The task IDs of every batch handed to CreateTasks from commits[k] on,
\* whether its commit succeeded or failed.
handedOutFrom(k) ==
  IF k > Len(commits) THEN <<>>
  ELSE commits[k].ids \o handedOutFrom(k + 1)

\* The IDs given to requests so far, the batch about to be committed included.
HandedOutTaskIDs ==
  handedOutFrom(1) \o (IF loopPc = "commit" THEN taskIDs ELSE <<>>)

\* C12: no task ID is given to two requests: the IDs of all batches, failed
\* ones included, strictly increase in the order they were handed out.
C12_NoTaskIDHandedOutTwice ==
  StrictlyIncreasing(HandedOutTaskIDs)

\* C12 witness: a batch whose commit failed is followed by a later batch.
C12_Witness ==
  \E i, j \in 1..Len(commits) :
    /\ i < j
    /\ commits[i].err # "none"
    /\ commits[j].ids # <<>>

\* ---- fair scheduling -----------------------------------------------------

\* Every goroutine that can take its next step eventually takes it, and the
\* store's calls return: a started Stop reaches its close, a call past its
\* isStopped check reaches its send, a waiting caller whose stop branch is
\* ready leaves its select, and the loop goes on whenever it is not blocked.
\* The writer is started: Start is called, and called again for as long as
\* it returns the error (a Start that fails again changes nothing, so the
\* runs in which nobody calls it again are covered).  No one is obliged to
\* call Stop or appendTask.
Fairness ==
  /\ WF_vars(StartStep)
  /\ WF_vars(\E s \in Stoppers : StopClose(s))
  /\ \A c \in Callers : WF_vars(AppendSelect(c) \/ AppendStopBranch(c))
  /\ WF_vars(LoopStep)

\* The writer of a task list that has never been leased before.
InitFresh ==
  /\ Init
  /\ storeRangeID = 0

SpecFair == InitFresh /\ [][Next]_vars /\ Fairness

\* ---- C13 -----------------------------------------------------------------

\* C13: under fair scheduling every appendTask call that has passed its
\* isStopped check eventually returns, whether its request was admitted,
\* queued, in a batch, or refused.
C13_AppendEventuallyReturns ==
  \A c \in Callers : (cpc[c] \in {"send", "waiting"}) ~> (cpc[c] = "done")

\* C13 witness: a caller whose request was admitted before the writer
\* stopped has returned errShutdown from the stop branch.
C13_Witness ==
  \E c \in Callers :
    /\ cpc[c] = "done"
    /\ admitRes[c] = "errShutdown"
    /\ cres[c] = "errShutdown"
    /\ ~afterStop[c]

\* ---- C14 -----------------------------------------------------------------

\* C14: after Stop is called the writer loop eventually exits: once the
\* stopped flag is set, the loop goroutine reaches its end (or there is
\* none, Start having failed); a response owed to a caller that has
\* given up on its response channel does not hold the loop forever.
C14_LoopEventuallyExits ==
  (stopped = 1) ~> (loopPc = "exited" \/ ~Started)

\* The loop stands in sendWriteResponse with a response for a caller that
\* has already left appendTask by the stop branch: nobody will ever receive
\* from that caller's unbuffered response channel.
C14_LoopBlockedOnSend ==
  /\ loopPc = "respond"
  /\ stopChClosed
  /\ cpc[reqs[respIdx]] = "done"
  /\ cres[reqs[respIdx]] = "errShutdown"
  /\ batchErr = "none"
  /\ takeovers = 0

\* ---- C15 -----------------------------------------------------------------

\* C15 as stated: a request that is on its way through the started writer
\* while Stop has not been called (admitted, its caller waiting) is served before
\* the loop exits: as long as no further call has begun, its caller does not
\* leave appendTask with errShutdown, and the loop does not exit with the
\* request still on the admission queue.
C15_AdmittedBeforeStopServed ==
  \A c \in Callers : \A n \in 0..MaxCalls :
    []((Started /\ cpc[c] = "waiting" /\ stopped = 0 /\ calls = n)
         => [](calls = n =>
                 /\ admitRes[c] # "errShutdown"
                 /\ loopPc = "exited" => c \notin SeqRange(appendCh)))

\* C15 amended: the loop exits only on the closed stop channel and does not
\* drain the admission queue first; a request still queued at exit is never
\* served, and its caller returns errShutdown and nothing else; errShutdown
\* is returned only once Stop has been called, also to callers whose
\* request was admitted before Stop.
C15_QueuedRequestsAbandonedAtExit ==
  /\ loopPc = "exited" =>
       /\ stopChClosed
       /\ \A c \in SeqRange(appendCh) :
            /\ admitRes[c] \in {"pending", "errShutdown"}
            /\ cpc[c] = "done" => cres[c] = "errShutdown"
  /\ \A c \in Callers : cres[c] = "errShutdown" => stopped = 1

\* The loop has exited and left a request on the queue whose call began
\* before any Stop returned; its caller has returned errShutdown.
C15_Witness ==
  /\ loopPc = "exited"
  /\ \E c \in SeqRange(appendCh) :
       /\ admitRes[c] = "errShutdown"
       /\ cpc[c] = "done"
       /\ cres[c] = "errShutdown"
       /\ ~afterStop[c]

\* ---- C16 -----------------------------------------------------------------

\* C16: all requests of one batch receive the same outcome: while the loop
\* hands out the response of a batch, every member it has not answered yet
\* is still waiting for that response, so that each of them returns the
\* batch's error value and none returns anything else or is left out.
C16_BatchMembersSameOutcome ==
  loopPc = "respond" =>
    \A k \in respIdx..Len(reqs) : cpc[reqs[k]] = "waiting"

\* One batch, two outcomes: the first member returned the result of the
\* successful commit, the second returned errShutdown by the stop branch,
\* and the loop still holds the response for it.
C16_SplitBatch ==
  /\ loopPc = "respond"
  /\ respIdx = 2
  /\ Len(reqs) >= 2
  /\ batchErr = "none"
  /\ cpc[reqs[1]] = "done"
  /\ cres[reqs[1]] = "none"
  /\ cpc[reqs[2]] = "done"
  /\ cres[reqs[2]] = "errShutdown"
  /\ ~afterStop[reqs[2]]

\* ---- calls of the zone resolver and the partitioner ----------------------

taskWriterVars == <<appendCh, taskIDBlock, maxReadLevel, stopped, stopChCloses,
                    dbRangeID, storeRangeID, commits, loopPc, reqs, batchI,
                    taskIDs, batchErr, respIdx, cpc, cres, afterStop,
                    admitRes, spc, calls, takeovers, startLevel, lastAlloc>>

\* A call of DefaultZoneStateHandler.Get and its result.
CallGet(zone, cache, drains) ==
  /\ zoneCall = noCall
  /\ zoneCall' = [op |-> "Get", zone |-> zone, cache |-> cache,
                  drains |-> drains,
                  res |-> Get(zoneEnv, zone, cache, drains)]
  /\ UNCHANGED <<zoneEnv, taskWriterVars, peer>>

\* A call of DefaultPartitioner.IsDrained and its result.
CallIsDrained(zone, cache, drains) ==
  /\ zoneCall = noCall
  /\ zoneCall' = [op |-> "IsDrained", zone |-> zone, cache |-> cache,
                  drains |-> drains,
                  res |-> IsDrained(zoneEnv, zone, cache, drains)]
  /\ UNCHANGED <<zoneEnv, taskWriterVars, peer>>

\* A call of DefaultZoneStateHandler.ListAll and its result.
CallListAll(cache, drains) ==
  /\ zoneCall = noCall
  /\ zoneCall' = [op |-> "ListAll", cache |-> cache, drains |-> drains,
                  res |-> ListAll(zoneEnv, cache, drains)]
  /\ UNCHANGED <<zoneEnv, taskWriterVars, peer>>

\* A call of DefaultPartitioner.GetTaskZone and its result.
CallGetTaskZone(hint, cache, drains) ==
  /\ zoneCall = noCall
  /\ zoneCall' = [op |-> "GetTaskZone", hint |-> hint, cache |-> cache,
                  drains |-> drains,
                  res |-> GetTaskZone(zoneEnv, hint, cache, drains)]
  /\ UNCHANGED <<zoneEnv, taskWriterVars, peer>>

\* The caller has taken the result; the next call may begin.
ZoneCallReturn ==
  /\ zoneCall # noCall
  /\ zoneCall' = noCall
  /\ UNCHANGED <<zoneEnv, taskWriterVars, peer>>

\* The collaborators are given to the resolver and the partitioner (their
\* fields are set by code of the package that is not part of the sources
\* modelled here): r.drainState, z.domainCache, z.globalZoneDrains.
SetDrainState ==
  /\ zoneCall = noCall
  /\ ~zoneEnv.drainState
  /\ zoneEnv' = [zoneEnv EXCEPT !.drainState = TRUE]
  /\ UNCHANGED <<zoneCall, taskWriterVars, peer>>

SetDomainCache ==
  /\ zoneCall = noCall
  /\ ~zoneEnv.domainCache
  /\ zoneEnv' = [zoneEnv EXCEPT !.domainCache = TRUE]
  /\ UNCHANGED <<zoneCall, taskWriterVars, peer>>

SetGlobalZoneDrains ==
  /\ zoneCall = noCall
  /\ ~zoneEnv.globalZoneDrains
  /\ zoneEnv' = [zoneEnv EXCEPT !.globalZoneDrains = TRUE]
  /\ UNCHANGED <<zoneCall, taskWriterVars, peer>>

\* Every collaborator is set.
Wired ==
  /\ zoneEnv.drainState
  /\ zoneEnv.domainCache
  /\ zoneEnv.globalZoneDrains

InitPartition ==
  /\ InitTaskWriter
  /\ storeRangeID = 0
  /\ zoneEnv \in ZoneEnvs
  /\ zoneCall = noCall
  /\ peer = noPeer

NextPartition ==
  \/ \E zone \in QueryZones, cache \in CacheOutcomes, drains \in DrainsOutcomes :
       CallGet(zone, cache, drains)
  \/ \E zone \in QueryZones, cache \in CacheOutcomes, drains \in DrainsOutcomes :
       CallIsDrained(zone, cache, drains)
  \/ \E cache \in CacheOutcomes, drains \in DrainsOutcomes :
       CallListAll(cache, drains)
  \/ \E hint \in Hints, cache \in CacheOutcomes, drains \in DrainsOutcomes :
       CallGetTaskZone(hint, cache, drains)
  \/ ZoneCallReturn
  \/ SetDrainState
  \/ SetDomainCache
  \/ SetGlobalZoneDrains

SpecPartition == InitPartition /\ [][NextPartition]_vars

\* ---- C17 -----------------------------------------------------------------

\* C17: with zonal partitioning enabled, a Get that returns without error
\* reports the zone drained whenever the domain's zone-config or the global
\* drain table marks it drained; a domain entry that marks the zone healthy
\* does not hide a global drain.
C17_DrainedInAnyLayerIsDrained ==
  (zoneCall.op = "Get" /\ zoneEnv.enabled /\ zoneCall.res.err = "none") =>
    ((\/ ZoneLookup(zoneEnv.domainCfg, zoneCall.zone) = "drained"
      \/ ZoneLookup(zoneEnv.drains, zoneCall.zone) = "drained")
       => /\ zoneCall.res.zone.status = "drained"
          /\ zoneCall.res.zone.name = zoneCall.zone)

\* Get answered for a zone the domain marks healthy and the global table
\* marks drained, and reported it drained.
C17_Witness ==
  /\ zoneCall.op = "Get"
  /\ Wired
  /\ zoneEnv.enabled
  /\ zoneCall.res.err = "none"
  /\ ZoneLookup(zoneEnv.domainCfg, zoneCall.zone) = "healthy"
  /\ ZoneLookup(zoneEnv.drains, zoneCall.zone) = "drained"
  /\ zoneCall.res.zone.status = "drained"

\* ---- C18 -----------------------------------------------------------------

\* C18: with zonal partitioning disabled for the domain, Get returns the
\* zone it was asked about with status healthy and no error, whatever the
\* domain's zone-config and the global drain table hold, and reads neither
\* the domain cache nor the global drain store (so their failures do not
\* reach the caller).
C18_GateDisabledIsHealthy ==
  (zoneCall.op = "Get" /\ ~zoneEnv.enabled) =>
    /\ zoneCall.res.err = "none"
    /\ zoneCall.res.zone = [name |-> zoneCall.zone, status |-> "healthy"]
    /\ ~zoneCall.res.cacheRead
    /\ ~zoneCall.res.drainsRead

\* Get answered healthy with the gate disabled although both tables mark the
\* zone drained, the domain cache fails and the drain store panics.
C18_Witness ==
  /\ zoneCall.op = "Get"
  /\ ~zoneEnv.enabled
  /\ ZoneLookup(zoneEnv.domainCfg, zoneCall.zone) = "drained"
  /\ ZoneLookup(zoneEnv.drains, zoneCall.zone) = "drained"
  /\ zoneCall.cache = "error"
  /\ zoneCall.drains = "panic"
  /\ zoneCall.res.err = "none"
  /\ zoneCall.res.zone.status = "healthy"

\* ---- C19 -----------------------------------------------------------------

\* The status of a zone as the tables give it, layer by layer.
TableDrained(zone) ==
  /\ zoneEnv.enabled
  /\ \/ ZoneLookup(zoneEnv.domainCfg, zone) = "drained"
     \/ ZoneLookup(zoneEnv.drains, zone) = "drained"

TableHealthy(zone) ==
  \/ ~zoneEnv.enabled
  \/ /\ ZoneLookup(zoneEnv.domainCfg, zone) # "drained"
     /\ ZoneLookup(zoneEnv.drains, zone) \in {"absent", "healthy"}

\* Z: the healthy zones in the order of allZonesList.
HealthyZones == SelectSeq(allZonesList, TableHealthy)

\* The start zone a decodable hint declares.
StartZoneOf(hint) == IF hint.hasZone THEN hint.zone ELSE ""

\* C19: for a hint that decodes, GetTaskZone returns the start zone unchanged
\* when that zone is not drained, and Z[hash32(run-id) mod |Z|] when it is
\* drained and Z, the healthy zones in the order of allZonesList, is not
\* empty: a healthy configured zone that depends on Z and the run-id only.
\* With collaborators that are set and answer, the call succeeds in both
\* cases; when it succeeds despite a missing or failing collaborator the
\* zone is the same.
C19_StartZoneOrDeterministicPick ==
  (zoneCall.op = "GetTaskZone" /\ zoneCall.hint.valid) =>
    LET start == StartZoneOf(zoneCall.hint)
        Z == HealthyZones
        expected == IF TableDrained(start)
                    THEN Z[HashMod(zoneCall.hint.run, Len(Z)) + 1]
                    ELSE start
    IN  (TableDrained(start) => Len(Z) > 0) =>
          /\ (Wired /\ zoneCall.cache = "ok" /\ zoneCall.drains = "ok")
               => zoneCall.res = taskZone(TRUE, expected, "none")
          /\ zoneCall.res.err = "none"
               => /\ zoneCall.res.ok
                  /\ zoneCall.res.zone = expected
                  /\ TableDrained(start) =>
                       /\ zoneCall.res.zone \in TableZones
                       /\ TableHealthy(zoneCall.res.zone)

\* The start zone is drained, two zones are healthy, and the run-id's hash
\* 4294967295 selects the second of them.
C19_Witness ==
  /\ zoneCall.op = "GetTaskZone"
  /\ Wired
  /\ zoneCall.hint.valid
  /\ TableDrained(StartZoneOf(zoneCall.hint))
  /\ Len(HealthyZones) = 2
  /\ zoneCall.hint.run = [hi |-> 65535, lo |-> 65535]
  /\ zoneCall.res = taskZone(TRUE, HealthyZones[2], "none")

\* ---- C20 -----------------------------------------------------------------

\* C20: when the start zone of a decodable hint is drained and no zone is
\* healthy, GetTaskZone, with collaborators that are set and answer,
\* returns the no-capacity error as a value and no zone; it does not panic.
C20_NoHealthyZoneIsNoCapacity ==
  (/\ zoneCall.op = "GetTaskZone"
   /\ Wired
   /\ zoneCall.hint.valid
   /\ zoneCall.cache = "ok"
   /\ zoneCall.drains = "ok"
   /\ TableDrained(StartZoneOf(zoneCall.hint))
   /\ Len(HealthyZones) = 0) =>
    zoneCall.res = taskZone(FALSE, "", "noCapacity")

\* Every configured zone is drained in the domain's own zone-config, the
\* hint starts in zone "a", and the call ends in the divide-by-zero panic of
\* pickZoneAfterDrain.
C20_PanicOnNoHealthyZone ==
  /\ zoneCall.op = "GetTaskZone"
  /\ Wired
  /\ zoneCall.hint.valid
  /\ zoneCall.cache = "ok"
  /\ zoneCall.drains = "ok"
  /\ zoneEnv.enabled
  /\ \A z \in TableZones : zoneEnv.domainCfg[z] = "drained"
  /\ StartZoneOf(zoneCall.hint) = "a"
  /\ zoneCall.res = taskZone(FALSE, "", "panicDivideByZero")

\* ---- C21 -----------------------------------------------------------------

\* C21: for a hint that does not decode, or that decodes but has no
\* wf-start-zone key, GetTaskZone returns the invalid-hint error (the decode
\* error of line 75) and no zone; and no call of GetTaskZone succeeds with
\* an empty zone name.  (Stated for a partitioner whose collaborators are
\* set.)
C21_InvalidHintIsError ==
  (zoneCall.op = "GetTaskZone" /\ Wired) =>
    /\ (~zoneCall.hint.valid \/ ~zoneCall.hint.hasZone) =>
         zoneCall.res = taskZone(FALSE, "", "failedToDecodePartitionConfig")
    /\ ~(zoneCall.res.ok /\ zoneCall.res.zone = "")

\* A hint that decodes but has no wf-start-zone key: with collaborators
\* that answer, GetTaskZone succeeds and returns the empty zone name.
C21_EmptyZoneReturned ==
  /\ zoneCall.op = "GetTaskZone"
  /\ Wired
  /\ zoneCall.hint.valid
  /\ ~zoneCall.hint.hasZone
  /\ zoneEnv.enabled
  /\ zoneCall.cache = "ok"
  /\ zoneCall.drains = "ok"
  /\ zoneCall.res = taskZone(TRUE, "", "none")

\* ---- C22 -----------------------------------------------------------------

\* C22: a request whose caller left appendTask by the stop branch is not
\* written to the task store: the loop never holds, after a successful
\* CreateTasks, a batch with a member whose caller has returned errShutdown
\* for it.  (A caller that left by the stop branch is never admitted again,
\* so the unanswered member of the batch is the request it gave up on.)
C22_ShutdownMeansNotWritten ==
  (/\ loopPc = "respond"
   /\ batchErr = "none"
   /\ Len(commits) > 0
   /\ commits[Len(commits)].err = "none"
   /\ commits[Len(commits)].reqs = reqs) =>
    \A k \in respIdx..Len(reqs) : admitRes[reqs[k]] # "errShutdown"

\* The only request of a batch was written by a successful CreateTasks and
\* its caller, whose call began before any Stop returned, has returned
\* errShutdown.
C22_WrittenButShutdown ==
  /\ loopPc = "respond"
  /\ Len(reqs) = 1
  /\ respIdx = 1
  /\ batchErr = "none"
  /\ Len(commits) > 0
  /\ commits[Len(commits)] = [ids |-> taskIDs, reqs |-> reqs, err |-> "none"]
  /\ cpc[reqs[1]] = "done"
  /\ cres[reqs[1]] = "errShutdown"
  /\ admitRes[reqs[1]] = "errShutdown"
  /\ ~afterStop[reqs[1]]

\* ---- C23 -----------------------------------------------------------------

\* Concurrent mutation of the task list state the writer reads through
\* w.db: another user of the same taskListDB renews the lease, so that
\* w.db.RangeID() moves on while the writer still holds the block of the
\* range-id it renewed to itself.
CachedRangeIDMutated ==
  /\ Started
  /\ takeovers < MaxTakeovers
  /\ takeovers' = takeovers + 1
  /\ LET state == RenewLease(dbRangeID, storeRangeID, FALSE)
     IN  /\ state.err = "none"
         /\ dbRangeID' = state.rangeID
         /\ storeRangeID' = state.rangeID
  /\ UNCHANGED <<appendCh, taskIDBlock, maxReadLevel, stopped, stopChCloses,
                 commits, loopPc, reqs, batchI, taskIDs, batchErr, respIdx,
                 cpc, cres, afterStop, admitRes, spc, calls, startLevel,
                 lastAlloc>>
  /\ UNCHANGED partVars
  /\ UNCHANGED peer

NextMutation ==
  \/ Next
  \/ CachedRangeIDMutated

SpecMutation == Init /\ [][NextMutation]_vars

\* The block derived from the cached range-id does not end where the
\* writer's block ends.
BlockEndMismatch ==
  rangeIDToTaskIDBlock(dbRangeID, RangeSize).end # taskIDBlock.end

\* The writer's block has no ID left.
BlockRunsOut ==
  taskIDBlock.start > taskIDBlock.end

\* C23: allocTaskIDBlock is called for an exhausted block only; when the
\* block of the cached range-id ends elsewhere it fails with the
\* invalid-state error, and only then (otherwise it goes on to renew the
\* lease); the failure renews no lease (cached and stored range-id stay),
\* the batch gets that error and no IDs, the loop goes on to answer the
\* batch without a commit and without stopping, and max-read-level and the
\* writer's block stay as they are, also while the batch is answered.
C23_EndMismatchIsHardError ==
  [][/\ loopPc = "allocBlock" => BlockRunsOut
     /\ (loopPc = "allocBlock" /\ loopPc' # "allocBlock") =>
          /\ BlockEndMismatch <=> (lastAlloc'.err = "InvalidState")
          /\ ~BlockEndMismatch => loopPc' = "allocRenew"
          /\ BlockEndMismatch =>
               /\ lastAlloc'.renewals = lastAlloc.renewals
               /\ dbRangeID' = dbRangeID
               /\ storeRangeID' = storeRangeID
               /\ batchErr' = "InvalidState"
               /\ taskIDs' = <<>>
               /\ loopPc' = "respond"
               /\ commits' = commits
               /\ maxReadLevel' = maxReadLevel
               /\ stopped' = stopped
               /\ stopChCloses' = stopChCloses
               /\ taskIDBlock' = taskIDBlock
     /\ (loopPc = "respond" /\ batchErr = "InvalidState") =>
          /\ commits' = commits
          /\ maxReadLevel' = maxReadLevel
          /\ taskIDBlock' = taskIDBlock
          /\ loopPc' \in {"respond", "select"}]_vars

\* A batch failed with the invalid-state error, a caller has received that
\* error, the writer is not stopped and still holds the exhausted block.
C23_Witness ==
  /\ lastAlloc.err = "InvalidState"
  /\ stopped = 0
  /\ taskIDBlock.start = taskIDBlock.end + 1
  /\ rangeIDToTaskIDBlock(dbRangeID, RangeSize).end # taskIDBlock.end
  /\ \E c \in Callers : cpc[c] = "done" /\ cres[c] = "InvalidState"

\* ---- C24 -----------------------------------------------------------------

\* The second writer runs the same code on its own host, with its own
\* taskListDB (peer.rangeID is the range-id that one caches) and batches of
\* one request.  peer.stopped is its w.stopped with its stopCh; peer.commits
\* holds every pass of its loop: the IDs and the error of the pass.

\* The second writer's Start: renew the lease, take the block of the
\* renewed range-id, start its loop; on error its task list is stopped and
\* Start returns the error.
PeerStart(fault) ==
  /\ peer.pc = "fresh"
  /\ LET state == renewLeaseWithRetry(peer.rangeID, storeRangeID, fault)
     IN  IF state.stop
         THEN /\ peer' = [peer EXCEPT !.stopped = TRUE]
              /\ UNCHANGED storeRangeID
         ELSE /\ peer' = [peer EXCEPT
                            !.pc = "select",
                            !.rangeID = state.rangeID,
                            !.block = rangeIDToTaskIDBlock(state.rangeID,
                                                           RangeSize)]
              /\ storeRangeID' = state.rangeID
  /\ UNCHANGED <<appendCh, taskIDBlock, maxReadLevel, stopped, stopChCloses,
                 dbRangeID, commits, loopPc, reqs, batchI, taskIDs, batchErr,
                 respIdx, cpc, cres, afterStop, admitRes, spc, calls,
                 takeovers, startLevel, lastAlloc>>
  /\ UNCHANGED partVars

\* The second writer's loop receives a request (its select may do so also
\* when its stopCh is closed) and allocTaskIDs(1) takes an ID from its
\* block, or finds the block exhausted and compares the block ends.
PeerAlloc ==
  /\ peer.pc = "select"
  /\ Len(peer.commits) < MaxPeerWrites
  /\ LET st == allocLoop([block |-> peer.block, result |-> <<>>], 1)
     IN  IF Len(st.result) >= 1
         THEN peer' = [peer EXCEPT !.pc = "commit", !.block = st.block,
                                   !.ids = st.result]
         ELSE IF invalidState(peer.block.end, peer.rangeID)
         THEN peer' = [peer EXCEPT
                         !.commits = Append(peer.commits,
                                            [ids |-> <<>>,
                                             err |-> "InvalidState"])]
         ELSE peer' = [peer EXCEPT !.pc = "renew"]
  /\ UNCHANGED <<appendCh, taskIDBlock, maxReadLevel, stopped, stopChCloses,
                 dbRangeID, storeRangeID, commits, loopPc, reqs, batchI,
                 taskIDs, batchErr, respIdx, cpc, cres, afterStop, admitRes,
                 spc, calls, takeovers, startLevel, lastAlloc>>
  /\ UNCHANGED partVars

\* The second writer's renewLeaseWithRetry in allocTaskIDBlock: the store
\* call; on success the ID comes from the new block, on failure its task
\* list is stopped and the pass ends with the error.
PeerRenewLease(fault) ==
  /\ peer.pc = "renew"
  /\ LET state == renewLeaseWithRetry(peer.rangeID, storeRangeID, fault)
         newBlock == allocTaskIDBlock(peer.block.end, state)
     IN  IF newBlock.err # "none"
         THEN /\ peer' = [peer EXCEPT
                            !.pc = "select",
                            !.stopped = peer.stopped \/ state.stop,
                            !.commits = Append(peer.commits,
                                               [ids |-> <<>>,
                                                err |-> newBlock.err])]
              /\ UNCHANGED storeRangeID
         ELSE LET st == allocLoop([block |-> newBlock.block,
                                   result |-> <<>>], 1)
              IN  /\ peer' = [peer EXCEPT !.pc = "commit",
                                          !.rangeID = state.rangeID,
                                          !.block = st.block,
                                          !.ids = st.result]
                  /\ storeRangeID' = state.rangeID
  /\ UNCHANGED <<appendCh, taskIDBlock, maxReadLevel, stopped, stopChCloses,
                 dbRangeID, commits, loopPc, reqs, batchI, taskIDs, batchErr,
                 respIdx, cpc, cres, afterStop, admitRes, spc, calls,
                 takeovers, startLevel, lastAlloc>>
  /\ UNCHANGED partVars

\* The second writer's CreateTasks with the range-id it holds; a condition
\* failure stops its task list.
PeerCommit(fault) ==
  /\ peer.pc = "commit"
  /\ LET err == CreateTasks(peer.rangeID, storeRangeID, fault)
     IN  peer' = [peer EXCEPT
                    !.pc = "select",
                    !.stopped = peer.stopped \/ handleErr(err),
                    !.ids = <<>>,
                    !.commits = Append(peer.commits,
                                       [ids |-> peer.ids, err |-> err])]
  /\ UNCHANGED <<appendCh, taskIDBlock, maxReadLevel, stopped, stopChCloses,
                 dbRangeID, storeRangeID, commits, loopPc, reqs, batchI,
                 taskIDs, batchErr, respIdx, cpc, cres, afterStop, admitRes,
                 spc, calls, takeovers, startLevel, lastAlloc>>
  /\ UNCHANGED partVars

\* The second writer's loop takes the stop branch of its select.
PeerExit ==
  /\ peer.pc = "select"
  /\ peer.stopped
  /\ peer' = [peer EXCEPT !.pc = "exited"]
  /\ UNCHANGED <<appendCh, taskIDBlock, maxReadLevel, stopped, stopChCloses,
                 dbRangeID, storeRangeID, commits, loopPc, reqs, batchI,
                 taskIDs, batchErr, respIdx, cpc, cres, afterStop, admitRes,
                 spc, calls, takeovers, startLevel, lastAlloc>>
  /\ UNCHANGED partVars

\* Two writers of one task list.  Nobody calls Stop from outside: each
\* writer is stopped by its own error handling only.
NextTwoWriters ==
  \/ StartStep
  \/ \E c \in Callers : AppendBegin(c)
  \/ \E c \in Callers : AppendSelect(c)
  \/ \E c \in Callers : AppendStopBranch(c)
  \/ LoopStep
  \/ \E fault \in BOOLEAN : PeerStart(fault)
  \/ PeerAlloc
  \/ \E fault \in BOOLEAN : PeerRenewLease(fault)
  \/ \E fault \in BOOLEAN : PeerCommit(fault)
  \/ PeerExit

SpecTwoWriters == InitFresh /\ [][NextTwoWriters]_vars

RECURSIVE peerCommittedFrom(_)
\* The task IDs the second writer wrote to the store.
peerCommittedFrom(k) ==
  IF k > Len(peer.commits) THEN <<>>
  ELSE (IF peer.commits[k].err = "none" THEN peer.commits[k].ids ELSE <<>>)
       \o peerCommittedFrom(k + 1)

PeerCommittedTaskIDs == peerCommittedFrom(1)

\* C24: of two writers of one task list, no task ID is written to the store
\* by both; and a writer writes no batch once the other has renewed the
\* lease after it: a CreateTasks of the first writer made while the second
\* holds a higher range-id fails, and the same with the writers exchanged.
C24_TwoWritersNeverShareAnID ==
  [][/\ SeqRange(CommittedTaskIDs') \cap SeqRange(PeerCommittedTaskIDs') = {}
     /\ (Len(commits') > Len(commits) /\ peer.rangeID > dbRangeID)
          => commits'[Len(commits')].err # "none"
     /\ (Len(peer.commits') > Len(peer.commits) /\ dbRangeID > peer.rangeID)
          => peer.commits'[Len(peer.commits')].err # "none"]_vars

\* Both writers have written tasks, the second renewed the lease after the
\* first, and the first writer's commit after that failed on the range-id
\* condition.
C24_Witness ==
  /\ Len(CommittedTaskIDs) > 0
  /\ Len(PeerCommittedTaskIDs) > 0
  /\ peer.rangeID > dbRangeID
  /\ Len(commits) > 0
  /\ commits[Len(commits)].err = "ConditionFailed"

====
